---- MODULE Spec2Model ----
(***************************************************************************)
(* SENTRI vulnerability scanner: the three detectors (SQL injection, XSS,  *)
(* hard-coded credentials), their response resolution, JSON extraction and *)
(* repair, normalization, and the /api/scan handler that joins them.       *)
(*                                                                         *)
(* Text is a sequence of symbols.  A symbol is one character ("[", "}",    *)
(* "5", " ") or a run of letters that the code never looks inside          *)
(* ("line_number", "CRITICAL"); QUOTE, NL, BSLASH and FENCE name the       *)
(* characters '"', newline, '\' and the three-backtick fence.  Numbers are *)
(* held in hundredths (85 is 0.85, 700 is 7).                              *)
(***************************************************************************)
EXTENDS Integers, Sequences, FiniteSets, TLC

VARIABLES
    file,        \* the uploaded file: "none", "badtype", "toolarge" or "ok"
    code,        \* the file's text
    aiPresent,   \* env.AI is bound
    task,        \* detector -> "idle" | "awaiting" | "fulfilled" | "rejected"
    received,    \* detector -> what its ai.run call did
    results,     \* detector -> the findings the detector returned
    completed,   \* detectors in the order their promises settled
    invocations, \* detector -> number of ai.run calls made
    requests,    \* detector -> the options of the ai.run calls made
    prompt,      \* detector -> the numbered code and the line count of its prompt
    outcome,     \* the handler's HTTP outcome
    exCase,      \* the make-up of a response text: objects, tail, wrapper, detector
    exText,      \* the response text given to extractAndParseJSON
    exOut,       \* what extractAndParseJSON returned for it
    element,   \* an element of a parsed array and the detector that screens it
    screened,    \* "no", or what isValidVulnerability made of it: "kept", "discarded"
    records   \* the records normalizeVulnerability made of it, one per pass

vars == <<file, code, aiPresent, task, received, results, completed, invocations, outcome,
          exCase, exText, exOut, element, screened, records, requests, prompt>>

-----------------------------------------------------------------------------
(* Symbols *)

QUOTE == "QUOTE"
NL == "NL"
BSLASH == "BSLASH"
FENCE == "FENCE"

Digits == <<"0", "1", "2", "3", "4", "5", "6", "7", "8", "9">>

IsDigit(c) == \E k \in 1..10 : Digits[k] = c

DigitValue(c) == (CHOOSE k \in 1..10 : Digits[k] = c) - 1

\* \s of the regular expressions, and the whitespace of trim() and JSON
IsWs(c) == c \in {" ", NL}

Min(a, b) == IF a < b THEN a ELSE b

Max(a, b) == IF a > b THEN a ELSE b

\* the body with v for its parameter: const x = v; ...
With(v, Body(_)) == Body(v)

-----------------------------------------------------------------------------
(* JavaScript values *)

Undef == [t |-> "undefined"]
Null == [t |-> "null"]
NaN == [t |-> "NaN"]
Bool(b) == [t |-> "boolean", b |-> b]
Num(h) == [t |-> "number", n |-> h]
Str(s) == [t |-> "string", s |-> s]
Obj(f) == [t |-> "object", f |-> f]
Arr(a) == [t |-> "array", a |-> a]

EmptyFields == [k \in {} |-> Undef]

\* obj.key: undefined when the property is absent or obj is no object
Get(v, key) ==
    IF v.t = "object" /\ key \in DOMAIN v.f THEN v.f[key] ELSE Undef

\* arr[0]
First(v) ==
    IF v.t = "array" /\ Len(v.a) > 0 THEN v.a[1] ELSE Undef

\* ToBoolean
Truthy(v) ==
    CASE v.t = "undefined" -> FALSE
      [] v.t = "null" -> FALSE
      [] v.t = "NaN" -> FALSE
      [] v.t = "boolean" -> v.b
      [] v.t = "number" -> v.n # 0
      [] v.t = "string" -> Len(v.s) > 0
      [] OTHER -> TRUE

\* a || b
Or(a, b) == IF Truthy(a) THEN a ELSE b

\* typeof v === 'object' (null and arrays included)
IsObjectType(v) == v.t \in {"object", "array", "null"}

-----------------------------------------------------------------------------
(* JSON.parse, over symbols *)

ParseFail == [ok |-> FALSE, v |-> Undef, i |-> 0]

ParseOk(v, i) == [ok |-> TRUE, v |-> v, i |-> i]

RECURSIVE SkipWs(_, _)
\* the first position at or after i that holds no whitespace
SkipWs(s, i) ==
    IF i <= Len(s) /\ IsWs(s[i]) THEN SkipWs(s, i + 1) ELSE i

RECURSIVE ReadDigits(_, _, _)
\* the digits from position i on: their value and the position after them
ReadDigits(s, i, acc) ==
    IF i <= Len(s) /\ IsDigit(s[i])
    THEN ReadDigits(s, i + 1, acc * 10 + DigitValue(s[i]))
    ELSE [v |-> acc, i |-> i]

RECURSIVE ReadFraction(_, _, _, _)
\* the digits after a decimal point, as hundredths (third and later digits
\* are dropped)
ReadFraction(s, i, k, acc) ==
    IF i <= Len(s) /\ IsDigit(s[i])
    THEN ReadFraction(s, i + 1, k + 1,
             acc + (CASE k = 1 -> 10 * DigitValue(s[i])
                      [] k = 2 -> DigitValue(s[i])
                      [] OTHER -> 0))
    ELSE [v |-> acc, i |-> i]

\* position j holds c
IsAt(s, j, c) == j >= 1 /\ j <= Len(s) /\ s[j] = c

\* -? (0 | [1-9][0-9]*) (. [0-9]+)? at position i
ParseNumber(s, i) ==
    With(IF s[i] = "-" THEN i + 1 ELSE i, LAMBDA j :
      IF ~(j <= Len(s) /\ IsDigit(s[j])) THEN ParseFail
      ELSE With(IF s[j] = "0" THEN [v |-> 0, i |-> j + 1] ELSE ReadDigits(s, j, 0),
             LAMBDA int :
        With(IF IsAt(s, int.i, ".") THEN ReadFraction(s, int.i + 1, 1, 0) ELSE int,
             LAMBDA frac :
          IF IsAt(s, int.i, ".") /\ frac.i = int.i + 1 THEN ParseFail
          ELSE IF frac.i = int.i THEN ParseOk(Num((IF s[i] = "-" THEN 0 - 100 ELSE 100) * int.v), int.i)
          ELSE ParseOk(Num((IF s[i] = "-" THEN 0 - 1 ELSE 1) * (int.v * 100 + frac.v)),
                       frac.i))))

RECURSIVE ReadString(_, _, _)
\* the characters of a JSON string whose opening quote precedes position i
ReadString(s, i, acc) ==
    IF i > Len(s) THEN ParseFail
    ELSE CASE s[i] = QUOTE -> ParseOk(Str(acc), i + 1)
           [] s[i] = NL -> ParseFail
           [] s[i] = BSLASH ->
                IF i + 1 <= Len(s) /\ s[i + 1] \in {QUOTE, BSLASH}
                THEN ReadString(s, i + 2, Append(acc, s[i + 1]))
                ELSE IF i + 1 <= Len(s) /\ s[i + 1] = "n"
                THEN ReadString(s, i + 2, Append(acc, NL))
                ELSE ParseFail
           [] OTHER -> ReadString(s, i + 1, Append(acc, s[i]))

\* a property name: the one symbol of the key string; any other key is
\* a name the code never reads
KeyName(str) == IF Len(str.s) = 1 THEN str.s[1] ELSE "?"

\* the fields acc with name set to v (a repeated key keeps its last value)
WithField(acc, name, v) ==
    [k \in DOMAIN acc \cup {name} |-> IF k = name THEN v ELSE acc[k]]

RECURSIVE ParseValue(_, _), ParseElements(_, _, _), ParseMembers(_, _, _)

\* the value at or after position i
ParseValue(s, i) ==
    With(SkipWs(s, i), LAMBDA j :
      IF j > Len(s) THEN ParseFail
      ELSE CASE s[j] = "[" ->
                  IF IsAt(s, SkipWs(s, j + 1), "]")
                  THEN ParseOk(Arr(<<>>), SkipWs(s, j + 1) + 1)
                  ELSE ParseElements(s, j + 1, <<>>)
             [] s[j] = "{" ->
                  IF IsAt(s, SkipWs(s, j + 1), "}")
                  THEN ParseOk(Obj(EmptyFields), SkipWs(s, j + 1) + 1)
                  ELSE ParseMembers(s, j + 1, EmptyFields)
             [] s[j] = QUOTE -> ReadString(s, j + 1, <<>>)
             [] s[j] = "-" \/ IsDigit(s[j]) -> ParseNumber(s, j)
             [] s[j] = "null" -> ParseOk(Null, j + 1)
             [] s[j] = "true" -> ParseOk(Bool(TRUE), j + 1)
             [] s[j] = "false" -> ParseOk(Bool(FALSE), j + 1)
             [] OTHER -> ParseFail)

\* value (, value)* ]
ParseElements(s, i, acc) ==
    With(ParseValue(s, i), LAMBDA e :
      IF ~e.ok THEN ParseFail
      ELSE With(SkipWs(s, e.i), LAMBDA j :
        CASE IsAt(s, j, ",") -> ParseElements(s, j + 1, Append(acc, e.v))
          [] IsAt(s, j, "]") -> ParseOk(Arr(Append(acc, e.v)), j + 1)
          [] OTHER -> ParseFail))

\* "key" : value (, "key" : value)* }
ParseMembers(s, i, acc) ==
    With(SkipWs(s, i), LAMBDA j :
      IF ~IsAt(s, j, QUOTE) THEN ParseFail
      ELSE With(ReadString(s, j + 1, <<>>), LAMBDA key :
        IF ~key.ok \/ ~IsAt(s, SkipWs(s, key.i), ":") THEN ParseFail
        ELSE With(ParseValue(s, SkipWs(s, key.i) + 1), LAMBDA val :
          IF ~val.ok THEN ParseFail
          ELSE With(SkipWs(s, val.i), LAMBDA m :
            CASE IsAt(s, m, ",") ->
                   ParseMembers(s, m + 1, WithField(acc, KeyName(key.v), val.v))
              [] IsAt(s, m, "}") ->
                   ParseOk(Obj(WithField(acc, KeyName(key.v), val.v)), m + 1)
              [] OTHER -> ParseFail))))

\* JSON.parse(text): the value, or a failure where JSON.parse throws
JSONParse(s) ==
    With(ParseValue(s, 1), LAMBDA r :
      IF r.ok /\ SkipWs(s, r.i) > Len(s) THEN r ELSE ParseFail)

-----------------------------------------------------------------------------
(* String(), parseInt(), parseFloat(), toUpperCase(), trim() *)

RECURSIVE IntDigits(_)
\* the decimal digits of a natural number
IntDigits(n) ==
    IF n < 10 THEN <<Digits[n + 1]>>
    ELSE Append(IntDigits(n \div 10), Digits[(n % 10) + 1])

\* Number.prototype.toString of h hundredths: 700 is "7", 85 is "0.85"
NumberToString(h) ==
    LET m == IF h < 0 THEN 0 - h ELSE h
        fp == m % 100
        frac == IF fp = 0 THEN <<>>
                ELSE <<".", Digits[(fp \div 10) + 1]>> \o
                     (IF fp % 10 = 0 THEN <<>> ELSE <<Digits[(fp % 10) + 1]>>)
    IN  (IF h < 0 THEN <<"-">> ELSE <<>>) \o IntDigits(m \div 100) \o frac

RECURSIVE StringOf(_), JoinStrings(_, _)

\* String(v)
StringOf(v) ==
    CASE v.t = "string" -> v.s
      [] v.t = "number" -> NumberToString(v.n)
      [] v.t = "boolean" -> IF v.b THEN <<"true">> ELSE <<"false">>
      [] v.t = "array" -> JoinStrings(v.a, 1)
      [] v.t = "object" -> <<"[object Object]">>
      [] OTHER -> <<v.t>>

\* Array.prototype.join(','), from element i on
JoinStrings(a, i) ==
    IF i > Len(a) THEN <<>>
    ELSE (IF a[i].t \in {"null", "undefined"} THEN <<>> ELSE StringOf(a[i])) \o
         (IF i < Len(a) THEN <<",">> \o JoinStrings(a, i + 1) ELSE <<>>)

\* parseInt(v, 10): optional whitespace, optional sign, digits; NaN without
\* a digit
ParseInt(v) ==
    With(StringOf(v), LAMBDA s :
      With(SkipWs(s, 1), LAMBDA i :
        With(IF IsAt(s, i, "-") \/ IsAt(s, i, "+") THEN i + 1 ELSE i, LAMBDA j :
          With(ReadDigits(s, j, 0), LAMBDA d :
            IF d.i = j THEN NaN
            ELSE Num(100 * (IF IsAt(s, i, "-") THEN 0 - d.v ELSE d.v))))))

\* parseFloat(v): optional whitespace, optional sign, digits with an optional
\* fraction, or Infinity; NaN otherwise
ParseFloat(v) ==
    With(StringOf(v), LAMBDA s :
      With(SkipWs(s, 1), LAMBDA i :
        With(IF IsAt(s, i, "-") \/ IsAt(s, i, "+") THEN i + 1 ELSE i, LAMBDA j :
          IF IsAt(s, j, "Infinity") THEN [t |-> "infinity", neg |-> IsAt(s, i, "-")]
          ELSE With(ReadDigits(s, j, 0), LAMBDA int :
            With(IF IsAt(s, int.i, ".") THEN ReadFraction(s, int.i + 1, 1, 0)
                 ELSE [v |-> 0, i |-> int.i + 1],
                 LAMBDA frac :
              IF frac.i - j - 1 = 0 THEN NaN
              ELSE Num((IF IsAt(s, i, "-") THEN 0 - 1 ELSE 1) * (int.v * 100 + frac.v)))))))

\* the words of the model that toUpperCase changes
UpperCaseOf ==
    [critical |-> "CRITICAL", high |-> "HIGH", medium |-> "MEDIUM",
     low |-> "LOW", Low |-> "LOW", severe |-> "SEVERE", true |-> "TRUE",
     false |-> "FALSE", null |-> "NULL", undefined |-> "UNDEFINED"]

\* String.prototype.toUpperCase
ToUpperCase(s) ==
    [i \in 1..Len(s) |-> IF s[i] \in DOMAIN UpperCaseOf THEN UpperCaseOf[s[i]] ELSE s[i]]

\* String.prototype.trim
Trim(s) ==
    LET keep == {i \in 1..Len(s) : ~IsWs(s[i])}
    IN  IF keep = {} THEN <<>>
        ELSE SubSeq(s, CHOOSE i \in keep : \A k \in keep : i <= k,
                       CHOOSE i \in keep : \A k \in keep : i >= k)

-----------------------------------------------------------------------------
(* The three detectors and their normalizers *)

SQL == "sql"
XSS == "xss"
CRED == "credentials"

\* in the order the handler invokes them
Detectors == <<SQL, XSS, CRED>>

DetectorSet == {SQL, XSS, CRED}

\* the vulnerability_type a detector gives a finding that has none
DefaultType(d) ==
    CASE d = SQL -> <<"SQL", " ", "Injection">>
      [] d = XSS -> <<"Cross-Site", " ", "Scripting", " ", "(", "XSS", ")">>
      [] d = CRED -> <<"Hard-coded", " ", "Credentials">>

validSeverities == {<<"CRITICAL">>, <<"HIGH">>, <<"MEDIUM">>, <<"LOW">>}

\* the legacy variant: MEDIUM for a severity that is not recognized
normalizeSeverityLegacy(severity) ==
    With(Trim(ToUpperCase(StringOf(Or(severity, Str(<<>>))))), LAMBDA normalized :
      IF normalized \in validSeverities THEN normalized ELSE <<"MEDIUM">>)

normalizeSeverity(severity) ==
    With(Trim(ToUpperCase(StringOf(Or(severity, Str(<<>>))))), LAMBDA normalized :
      IF normalized \in validSeverities THEN normalized ELSE <<"HIGH">>)

\* the confidence as parsed, in hundredths, with no clamp
normalizeConfidenceUnclamped(confidence) ==
    With(ParseFloat(confidence), LAMBDA num :
      CASE num.t = "NaN" -> 85
        [] num.t = "infinity" -> IF num.neg THEN 0 ELSE 100
        [] OTHER -> num.n)

\* Math.max(0, Math.min(1, num)), in hundredths; 0.85 for NaN
normalizeConfidence(confidence) ==
    With(ParseFloat(confidence), LAMBDA num :
      CASE num.t = "NaN" -> 85
        [] num.t = "infinity" -> IF num.neg THEN 0 ELSE 100
        [] OTHER -> Max(0, Min(100, num.n)))

\* parseInt(vuln.line_number, 10) || 0
normalizeLineNumber(line_number) ==
    With(ParseInt(line_number), LAMBDA num : IF num.t = "NaN" THEN 0 ELSE num.n \div 100)

normalizeVulnerability(vuln, d) ==
    [vulnerability_type |-> StringOf(Or(Get(vuln, "vulnerability_type"), Str(DefaultType(d)))),
     severity |-> normalizeSeverity(Get(vuln, "severity")),
     line_number |-> normalizeLineNumber(Get(vuln, "line_number")),
     code_snippet |-> StringOf(Or(Get(vuln, "code_snippet"), Str(<<>>))),
     explanation |-> StringOf(Or(Get(vuln, "explanation"), Str(<<>>))),
     fix_suggestion |-> StringOf(Or(Get(vuln, "fix_suggestion"), Str(<<>>))),
     confidence |-> normalizeConfidence(Get(vuln, "confidence"))]

isValidVulnerability(obj) ==
    IF ~Truthy(obj) \/ ~IsObjectType(obj) THEN FALSE
    ELSE Truthy(Or(Or(Get(obj, "vulnerability_type"), Get(obj, "line_number")),
                   Get(obj, "code_snippet")))

\* parsed.filter(isValidVulnerability).map(normalizeVulnerability)
RECURSIVE FilterAndNormalize(_, _, _)
FilterAndNormalize(a, i, d) ==
    IF i > Len(a) THEN <<>>
    ELSE (IF isValidVulnerability(a[i]) THEN <<normalizeVulnerability(a[i], d)>> ELSE <<>>)
         \o FilterAndNormalize(a, i + 1, d)

-----------------------------------------------------------------------------
(* String searches and the regular expressions of extractAndParseJSON *)

\* the smallest and the largest position of a set; 0 when it is empty
FirstIn(S) == IF S = {} THEN 0 ELSE CHOOSE i \in S : \A k \in S : i <= k

LastIn(S) == IF S = {} THEN 0 ELSE CHOOSE i \in S : \A k \in S : i >= k

\* s.indexOf(c) and s.lastIndexOf(c), 1-based; 0 where JavaScript gives -1
IndexOf(s, c) == FirstIn({i \in 1..Len(s) : s[i] = c})

LastIndexOf(s, c) == LastIn({i \in 1..Len(s) : s[i] = c})

\* the first position after i that holds c, or 0
NextIndexOf(s, i, c) == FirstIn({j \in (i + 1)..Len(s) : s[j] = c})

\* s.substring(from - 1), for a 1-based position from
SubstringFrom(s, from) == SubSeq(s, from, Len(s))

\* s.endsWith(c)
EndsWith(s, c) == Len(s) > 0 /\ s[Len(s)] = c

\* s holds the symbols of pat from position i on
HasAt(s, i, pat) ==
    /\ i >= 1
    /\ i + Len(pat) - 1 <= Len(s)
    /\ \A k \in 1..Len(pat) : s[i + k - 1] = pat[k]

\* "name" \s* : \s*  at position i: the position after it, or 0
KeyAt(s, i, name) ==
    IF ~HasAt(s, i, <<QUOTE, name, QUOTE>>) THEN 0
    ELSE With(SkipWs(s, i + 3), LAMBDA c :
           IF IsAt(s, c, ":") THEN SkipWs(s, c + 1) ELSE 0)

NoMatch == [ok |-> FALSE, group |-> <<>>]

Match(group) == [ok |-> TRUE, group |-> group]

\* /```(?:json)?\s*([\s\S]*?)```/i : the captured group of the first match:
\* after the fence, an optional json and whitespace, up to the next fence
MatchCodeBlock(s) ==
    With(FirstIn({i \in 1..Len(s) : s[i] = FENCE /\ NextIndexOf(s, i, FENCE) # 0}),
         LAMBDA open :
      IF open = 0 THEN NoMatch
      ELSE With(IF IsAt(s, open + 1, "json") \/ IsAt(s, open + 1, "JSON")
                THEN open + 2 ELSE open + 1,
                LAMBDA from :
             Match(SubSeq(s, SkipWs(s, from), NextIndexOf(s, open, FENCE) - 1))))

NoNumber == [ok |-> FALSE, num |-> 0, end |-> 0]

\* /"line_number"\s*:\s*(\d+)/ at position i
LineNumberAt(s, i) ==
    With(KeyAt(s, i, "line_number"), LAMBDA v :
      IF v = 0 THEN NoNumber
      ELSE With(ReadDigits(s, v, 0), LAMBDA d :
             IF d.i = v THEN NoNumber ELSE [ok |-> TRUE, num |-> d.v, end |-> d.i]))

\* foundLineNumbers.push(lineNum) unless it is included
PushNew(acc, num) ==
    IF \E k \in 1..Len(acc) : acc[k] = num THEN acc ELSE Append(acc, num)

\* the first position of S that is not before from, or 0
FirstFrom(S, from) == FirstIn({i \in S : i >= from})

RECURSIVE FoundFrom(_, _, _, _)
\* the exec loop over lineNumberPattern, resumed at position from; starts
\* are the positions where the pattern matches
FoundFrom(s, starts, from, acc) ==
    With(FirstFrom(starts, from), LAMBDA i :
      IF i = 0 THEN acc
      ELSE With(LineNumberAt(s, i), LAMBDA m :
             FoundFrom(s, starts, m.end, PushNew(acc, m.num))))

\* the distinct line numbers of the text, in the order they appear
FoundLineNumbers(s) ==
    FoundFrom(s, {i \in 1..Len(s) : LineNumberAt(s, i).ok}, 1, <<>>)

\* the closing quote of the string that opens at position v, or 0
StringEnd(s, v) ==
    IF v # 0 /\ IsAt(s, v, QUOTE) THEN NextIndexOf(s, v, QUOTE) ELSE 0

\* /\{\s*"vulnerability_type"\s*:\s*"[^"]*"[^}]*\}/ at position i: the
\* position of the closing brace, or 0
ObjectAt(s, i) ==
    IF ~IsAt(s, i, "{") THEN 0
    ELSE With(StringEnd(s, KeyAt(s, SkipWs(s, i + 1), "vulnerability_type")), LAMBDA q :
           IF q = 0 THEN 0 ELSE NextIndexOf(s, q, "}"))

\* "line_number"\s*:\s*${lineNum} at position i, num being the digits of
\* lineNum: the position after it, or 0
LineKeyAt(s, i, num) ==
    With(KeyAt(s, i, "line_number"), LAMBDA v :
      IF v # 0 /\ HasAt(s, v, num) THEN v + Len(num) ELSE 0)

\* "explanation"\s*:\s*"([^"]*)" at position p: the closing quote, or 0
ExplanationEnd(s, p) == StringEnd(s, KeyAt(s, p, "explanation"))

\* where [^}]* from position a can stop for "explanation" to match
ExplanationKeys(s, a) ==
    IF a = 0 THEN {}
    ELSE {p \in a..Len(s) :
            /\ ExplanationEnd(s, p) # 0
            /\ \A k \in a..(p - 1) : s[k] # "}"}

\* new RegExp(`"line_number"\s*:\s*${lineNum}[^}]*"explanation"\s*:\s*"([^"]*)"`):
\* the group of the first match; [^}]* is greedy, so it is the last
\* "explanation" key before the next closing brace
ExplanationMatch(s, lineNum) ==
    With(IntDigits(lineNum), LAMBDA num :
      With(FirstIn({i \in 1..Len(s) : ExplanationKeys(s, LineKeyAt(s, i, num)) # {}}),
           LAMBDA start :
        IF start = 0 THEN NoMatch
        ELSE With(LastIn(ExplanationKeys(s, LineKeyAt(s, start, num))), LAMBDA p :
               Match(SubSeq(s, KeyAt(s, p, "explanation") + 1, ExplanationEnd(s, p) - 1)))))

\* \s*,\s* at position c: the position after it, or 0
CommaAt(s, c) ==
    IF c # 0 /\ IsAt(s, SkipWs(s, c), ",") THEN SkipWs(s, SkipWs(s, c) + 1) ELSE 0

\* "line_number"\s*:\s*${lineNum}\s*,\s*"code_snippet"\s*:\s*" at position
\* i: the position after it, or 0
SnippetOpen(s, i, num) ==
    With(KeyAt(s, CommaAt(s, LineKeyAt(s, i, num)), "code_snippet"), LAMBDA v :
      IF v # 0 /\ IsAt(s, v, QUOTE) THEN v + 1 ELSE 0)

\* where (.*?) from position open can stop: at a quote that
\* \s*,\s*"explanation" follows
SnippetEnds(s, open) ==
    IF open = 0 THEN {}
    ELSE {q \in open..Len(s) :
            /\ s[q] = QUOTE
            /\ HasAt(s, CommaAt(s, q + 1), <<QUOTE, "explanation", QUOTE>>)}

\* new RegExp(`"line_number"\s*:\s*${lineNum}\s*,\s*"code_snippet"\s*:\s*"(.*?)"\s*,\s*"explanation"`, 's'):
\* the group of the first match; (.*?) is lazy, so it ends at the first such
\* quote
SnippetMatch(s, lineNum) ==
    With(IntDigits(lineNum), LAMBDA num :
      With(FirstIn({i \in 1..Len(s) : SnippetEnds(s, SnippetOpen(s, i, num)) # {}}),
           LAMBDA start :
        IF start = 0 THEN NoMatch
        ELSE With(SnippetOpen(s, start, num), LAMBDA open :
               Match(SubSeq(s, open, FirstIn(SnippetEnds(s, open)) - 1)))))

-----------------------------------------------------------------------------
(* extractAndParseJSON *)

RECURSIVE InsertByLine(_, _, _)
\* x put into the sorted sequence, after every element whose line is not
\* greater: Array.prototype.sort is stable
InsertByLine(sorted, x, field) ==
    IF sorted = <<>> THEN <<x>>
    ELSE IF sorted[Len(sorted)][field] <= x[field] THEN Append(sorted, x)
    ELSE Append(InsertByLine(SubSeq(sorted, 1, Len(sorted) - 1), x, field),
                sorted[Len(sorted)])

RECURSIVE InsertBeforeEqual(_, _, _)
\* x put before every element whose line is not smaller
InsertBeforeEqual(sorted, x, field) ==
    IF sorted = <<>> THEN <<x>>
    ELSE IF sorted[Len(sorted)][field] < x[field] THEN Append(sorted, x)
    ELSE Append(InsertBeforeEqual(SubSeq(sorted, 1, Len(sorted) - 1), x, field),
                sorted[Len(sorted)])

RECURSIVE SortByLineReversingTies(_, _)
\* a sort that is not stable: equal lines come out in reverse
SortByLineReversingTies(seq, field) ==
    IF seq = <<>> THEN <<>>
    ELSE InsertBeforeEqual(SortByLineReversingTies(SubSeq(seq, 1, Len(seq) - 1), field),
                           seq[Len(seq)], field)

RECURSIVE SortByLine(_, _)
\* seq.sort((a, b) => a[field] - b[field])
SortByLine(seq, field) ==
    IF seq = <<>> THEN <<>>
    ELSE InsertByLine(SortByLine(SubSeq(seq, 1, Len(seq) - 1), field),
                      seq[Len(seq)], field)

\* the fallback explanation of a synthesized finding
FallbackExplanation(d) ==
    CASE d = SQL -> <<"SQL injection vulnerability detected">>
      [] d = XSS -> <<"XSS vulnerability detected">>
      [] d = CRED -> <<"Hard-coded credential detected">>

\* the fix_suggestion of a synthesized finding
FallbackFix(d) ==
    CASE d = SQL -> <<"Use parameterized queries instead of string concatenation">>
      [] d = XSS -> <<"Use textContent, DOMPurify, or proper escaping">>
      [] d = CRED -> <<"Use environment variables instead">>

\* the severity of a synthesized finding
FallbackSeverity(d) == IF d = SQL THEN <<"CRITICAL">> ELSE <<"HIGH">>

RECURSIVE RecoverFrom(_, _, _, _)
\* the exec loop over objectPattern, resumed at position from: every match
\* that parses and is valid, records; starts are the positions where the
\* pattern matches
RecoverFrom(s, starts, from, d) ==
    With(FirstFrom(starts, from), LAMBDA i :
      IF i = 0 THEN <<>>
      ELSE With(JSONParse(SubSeq(s, i, ObjectAt(s, i))), LAMBDA parsed :
             (IF parsed.ok /\ isValidVulnerability(parsed.v)
              THEN <<normalizeVulnerability(parsed.v, d)>> ELSE <<>>)
             \o RecoverFrom(s, starts, ObjectAt(s, i) + 1, d)))

\* stage 5
RecoverObjects(s, d) == RecoverFrom(s, {i \in 1..Len(s) : ObjectAt(s, i) # 0}, 1, d)

GroupOr(m, default) == IF m.ok THEN m.group ELSE default

\* the finding pushed for a line number that no recovered object carries
\* (only the SQL agent looks for the snippet)
SynthesizedFinding(cleaned, lineNum, d) ==
    normalizeVulnerability(
        Obj([vulnerability_type |-> Str(DefaultType(d)),
             severity |-> Str(FallbackSeverity(d)),
             line_number |-> Num(100 * lineNum),
             code_snippet |-> Str(IF d = SQL
                                  THEN GroupOr(SnippetMatch(cleaned, lineNum), <<>>)
                                  ELSE <<>>),
             explanation |-> Str(GroupOr(ExplanationMatch(cleaned, lineNum),
                                         FallbackExplanation(d))),
             fix_suggestion |-> Str(FallbackFix(d)),
             confidence |-> Num(90)]), d)

\* foundLineNumbers.filter((ln) => !extractedLines.includes(ln))
MissingLines(foundLineNumbers, recovered) ==
    SelectSeq(foundLineNumbers,
              LAMBDA ln : \A k \in 1..Len(recovered) : recovered[k].line_number # ln)

\* stages 5 and 6: per-object recovery, then a finding for every line number
\* found that no recovered object carries, when fewer objects were recovered
\* than line numbers found
RecoverAndReconcile(cleaned, d) ==
    With(RecoverObjects(cleaned, d), LAMBDA vulnerabilities :
      With(FoundLineNumbers(cleaned), LAMBDA foundLineNumbers :
        IF Len(vulnerabilities) < Len(foundLineNumbers)
        THEN With(MissingLines(foundLineNumbers, vulnerabilities), LAMBDA missingLines :
               [findings |->
                  SortByLine(vulnerabilities \o
                             [k \in 1..Len(missingLines) |->
                                SynthesizedFinding(cleaned, missingLines[k], d)],
                             "line_number"),
                stage |-> "reconciled"])
        ELSE [findings |-> vulnerabilities, stage |-> "recovered"]))

\* an extractor without the repair stage
RepairSkipped(cleaned) == ParseFail

\* stage 4: the text cut after its last closing brace, with a closing bracket
RepairTruncated(cleaned) ==
    With(LastIndexOf(cleaned, "}"), LAMBDA lastBrace :
      IF lastBrace > 1
      THEN JSONParse(SubSeq(cleaned, 1, lastBrace) \o <<NL, "]">>)
      ELSE ParseFail)

\* parsed.filter(isValidVulnerability).map(normalizeVulnerability)
Parsed(array, d, stage) ==
    [findings |-> FilterAndNormalize(array.a, 1, d), stage |-> stage]

\* an array start that takes the -1 of indexOf for the start of the text
ArrayStartAssumed(unwrapped) == Max(1, IndexOf(unwrapped, "["))

\* cleaned.indexOf('['), 1-based; 0 where JavaScript gives -1
ArrayStart(unwrapped) == IndexOf(unwrapped, "[")

\* an extractor that goes to per-object recovery and reconciliation whatever
\* the direct parse and the repair yield
extractByRecovery(text, d) ==
    IF text = <<>> THEN [findings |-> <<>>, stage |-> "empty"]
    ELSE
    With(Trim(text), LAMBDA trimmed :
    With(MatchCodeBlock(trimmed), LAMBDA codeBlockMatch :
    With(IF codeBlockMatch.ok THEN Trim(codeBlockMatch.group) ELSE trimmed,
         LAMBDA unwrapped :
      IF ArrayStart(unwrapped) = 0 THEN [findings |-> <<>>, stage |-> "noarray"]
      ELSE RecoverAndReconcile(SubstringFrom(unwrapped, ArrayStart(unwrapped)), d))))

\* text is a string (a sequence of symbols); the result is the findings and
\* the stage that produced them
extractAndParseJSON(text, d) ==
    IF text = <<>> THEN [findings |-> <<>>, stage |-> "empty"]
    ELSE
    With(Trim(text), LAMBDA trimmed :
    With(MatchCodeBlock(trimmed), LAMBDA codeBlockMatch :
    With(IF codeBlockMatch.ok THEN Trim(codeBlockMatch.group) ELSE trimmed,
         LAMBDA unwrapped :
    With(ArrayStart(unwrapped), LAMBDA arrayStart :
      IF arrayStart = 0 THEN [findings |-> <<>>, stage |-> "noarray"]
      ELSE
      With(SubstringFrom(unwrapped, arrayStart), LAMBDA cleaned :
      With(JSONParse(cleaned), LAMBDA direct :
        IF direct.ok /\ direct.v.t = "array" THEN Parsed(direct.v, d, "direct")
        ELSE
        With(IF EndsWith(Trim(cleaned), "]") THEN ParseFail ELSE RepairTruncated(cleaned),
             LAMBDA repaired :
          IF repaired.ok /\ repaired.v.t = "array" THEN Parsed(repaired.v, d, "repaired")
          ELSE RecoverAndReconcile(cleaned, d))))))))

-----------------------------------------------------------------------------
(* JSON.stringify *)

\* the property names of the model's objects, in the order the objects are
\* written (Object.keys and JSON.stringify follow insertion order)
KeyOrder ==
    <<"response", "result", "content", "text", "output", "generated_text",
      "choices", "message", "findings", "vulnerability_type", "severity",
      "line_number", "code_snippet", "explanation", "fix_suggestion",
      "confidence", "?">>

\* Object.keys(v)
Keys(v) == SelectSeq(KeyOrder, LAMBDA k : k \in DOMAIN v.f)

RECURSIVE EscapeString(_, _)
\* the characters of a string as JSON.stringify writes them
EscapeString(s, i) ==
    IF i > Len(s) THEN <<>>
    ELSE (CASE s[i] = QUOTE -> <<BSLASH, QUOTE>>
            [] s[i] = BSLASH -> <<BSLASH, BSLASH>>
            [] s[i] = NL -> <<BSLASH, "n">>
            [] OTHER -> <<s[i]>>) \o EscapeString(s, i + 1)

RECURSIVE Stringify(_), StringifyElements(_, _), StringifyMembers(_, _, _)

\* JSON.stringify(v), for a value other than undefined
Stringify(v) ==
    CASE v.t = "string" -> <<QUOTE>> \o EscapeString(v.s, 1) \o <<QUOTE>>
      [] v.t = "number" -> NumberToString(v.n)
      [] v.t = "boolean" -> IF v.b THEN <<"true">> ELSE <<"false">>
      [] v.t = "array" -> <<"[">> \o StringifyElements(v.a, 1) \o <<"]">>
      [] v.t = "object" -> <<"{">> \o StringifyMembers(v, Keys(v), FALSE) \o <<"}">>
      [] OTHER -> <<"null">>

StringifyElements(a, i) ==
    IF i > Len(a) THEN <<>>
    ELSE Stringify(a[i]) \o
         (IF i < Len(a) THEN <<",">> \o StringifyElements(a, i + 1) ELSE <<>>)

\* the members of v named by keys; a property that is undefined is left out
StringifyMembers(v, keys, comma) ==
    IF keys = <<>> THEN <<>>
    ELSE IF v.f[Head(keys)].t = "undefined"
    THEN StringifyMembers(v, Tail(keys), comma)
    ELSE (IF comma THEN <<",">> ELSE <<>>)
         \o <<QUOTE, Head(keys), QUOTE, ":">> \o Stringify(v.f[Head(keys)])
         \o StringifyMembers(v, Tail(keys), TRUE)

NoText == [kind |-> "none", text |-> <<>>]

Throws == [kind |-> "throw", text |-> <<>>]

Text(s) == [kind |-> "text", text |-> s]

\* fullStr.match(/\[.*"vulnerability_type".*\]/s): the first bracket that a
\* "vulnerability_type" and then a closing bracket follow, to the last
\* closing bracket
FindingsArrayMatch(s) ==
    With(LastIndexOf(s, "]"), LAMBDA last :
      With(FirstIn({i \in 1..Len(s) :
                      /\ s[i] = "["
                      /\ \E k \in (i + 1)..(last - 3) :
                            HasAt(s, k, <<QUOTE, "vulnerability_type", QUOTE>>)}),
           LAMBDA start :
        IF start = 0 THEN NoText ELSE Text(SubSeq(s, start, last))))

-----------------------------------------------------------------------------
(* Response text resolution and detect *)

\* response.choices[0]?.message?.content and response.choices[0]?.text
ChoiceContent(response) == Get(Get(First(Get(response, "choices")), "message"), "content")

ChoiceText(response) == Get(First(Get(response, "choices")), "text")

\* a && b
And(a, b) == IF Truthy(a) THEN b ELSE a

\* sql-injection-agent.js: the chain of || takes the first truthy element,
\* whatever its type.  A falsy responseText returns [] after logging
\* JSON.stringify(response, null, 2).substring(0, 1000), which throws for an
\* undefined response; a truthy one that is no string makes text.trim()
\* throw in extractAndParseJSON
ResolveSQL(response) ==
    With(IF response.t = "string" THEN response
         ELSE IF Truthy(response)
         THEN Or(Get(response, "response"),
              Or(Get(response, "result"),
              Or(Get(response, "content"),
              Or(Get(response, "text"),
              Or(Get(response, "output"),
              Or(Get(response, "generated_text"),
              Or(And(Get(response, "choices"), ChoiceContent(response)),
                 And(Get(response, "choices"), ChoiceText(response)))))))))
         ELSE Null,
         LAMBDA responseText :
      IF ~Truthy(responseText)
      THEN IF response.t = "undefined" THEN Throws ELSE NoText
      ELSE IF responseText.t = "string" THEN Text(responseText.s)
      ELSE Throws)

\* the candidates of the XSS and credentials agents, in order
Candidates(response) ==
    <<Get(response, "response"), Get(response, "result"), Get(response, "content"),
      Get(response, "text"), Get(response, "output"), Get(response, "generated_text"),
      ChoiceContent(response), ChoiceText(response)>>

\* candidate.response || candidate.text || candidate.content
Nested(candidate) ==
    Or(Get(candidate, "response"), Or(Get(candidate, "text"), Get(candidate, "content")))

\* the candidate loop: a candidate resolves when it is a string, or an
\* object whose nested value is a string
CandidateText(candidate) ==
    IF candidate.t = "string" THEN candidate
    ELSE IF Truthy(candidate) /\ IsObjectType(candidate) /\ Nested(candidate).t = "string"
    THEN Nested(candidate)
    ELSE Undef

\* the candidate loop: the first candidate that resolves, or null
Looped(candidates) ==
    With({k \in 1..Len(candidates) : CandidateText(candidates[k]).t = "string"},
         LAMBDA hits :
      IF hits = {} THEN Null ELSE CandidateText(candidates[FirstIn(hits)]))

\* the values of response.response, in Object.keys order
InnerValues(inner) ==
    CASE inner.t = "object" -> [k \in 1..Len(Keys(inner)) |-> inner.f[Keys(inner)[k]]]
      [] inner.t = "array" -> inner.a
      [] OTHER -> <<>>

\* the strings among them that include a bracket
Bracketed(inner) ==
    SelectSeq(InnerValues(inner), LAMBDA v : v.t = "string" /\ IndexOf(v.s, "[") # 0)

\* the element loop, then the last resort: response.response is an object
\* with a string that includes a bracket
ProbeCandidates(response) ==
    With(Looped(Candidates(response)), LAMBDA looped :
      With(Get(response, "response"), LAMBDA inner :
        IF ~Truthy(looped) /\ Truthy(inner) /\ IsObjectType(inner)
           /\ Bracketed(inner) # <<>>
        THEN Head(Bracketed(inner)) ELSE looped))

\* xss-agent.js and credentials-agent.js.  A falsy responseText logs
\* JSON.stringify(response, null, 2).substring(0, 2000), which throws for an
\* undefined response; otherwise the stringified response is searched for an
\* array of findings
ResolveByCandidates(response) ==
    With(IF response.t = "string" THEN response
         ELSE IF Truthy(response) THEN ProbeCandidates(response)
         ELSE Null,
         LAMBDA responseText :
      IF Truthy(responseText) THEN Text(responseText.s)
      ELSE IF response.t = "undefined" THEN Throws
      ELSE FindingsArrayMatch(Stringify(response)))

ResolveResponseText(d, response) ==
    IF d = SQL THEN ResolveSQL(response) ELSE ResolveByCandidates(response)

\* code.trim().length === 0
IsBlank(c) == Trim(c) = <<>>

Rejected == [kind |-> "rejected", findings |-> <<>>]

Fulfilled(findings) == [kind |-> "fulfilled", findings |-> findings]

\* what detect does once ai.run has returned response: the promise's
\* settlement and the findings
DetectResponse(d, response) ==
    With(ResolveResponseText(d, response), LAMBDA resolved :
      CASE resolved.kind = "throw" -> Rejected
        [] resolved.kind = "none" -> Fulfilled(<<>>)
        [] OTHER -> Fulfilled(extractAndParseJSON(resolved.text, d).findings))

-----------------------------------------------------------------------------
(* formatVulnerabilitiesForFrontend and the scan response *)

\* the first n symbols of s: explanation.substring(0, 100)
Substring(s, n) == SubSeq(s, 1, Min(Len(s), n))

MessageLength == 100

formatVulnerability(vuln) ==
    [type |-> IF vuln.vulnerability_type # <<>> THEN vuln.vulnerability_type
              ELSE <<"Unknown">>,
     severity |-> IF vuln.severity # <<>> THEN vuln.severity ELSE <<"MEDIUM">>,
     line |-> IF vuln.line_number # 0 THEN vuln.line_number ELSE 0,
     code_snippet |-> vuln.code_snippet,
     message |-> IF vuln.explanation # <<>>
                 THEN Substring(vuln.explanation, MessageLength)
                 ELSE <<"Vulnerability detected">>,
     explanation |-> vuln.explanation,
     fix_suggestion |-> vuln.fix_suggestion,
     confidence |-> IF vuln.confidence # 0 THEN vuln.confidence ELSE 50]

formatVulnerabilitiesForFrontend(agentResults) ==
    [k \in 1..Len(agentResults) |-> formatVulnerability(agentResults[k])]

\* the words of the model that hold another as a substring
WordIncludes(word, needle) ==
    \/ word = needle
    \/ <<word, needle>> \in {<<"Credentials", "Credential">>, <<"SQLi", "SQL">>}

\* type.includes(needle), for a needle of one word
Includes(type, needle) == \E k \in 1..Len(type) : WordIncludes(type[k], needle)

\* the results taken in the order the promises settled
CombineInCompletionOrder(res, order) ==
    IF Len(order) = 3 THEN res[order[1]] \o res[order[2]] \o res[order[3]]
    ELSE res[SQL] \o res[XSS] \o res[CRED]

\* a combination that leaves out a finding an earlier detector reported too
CombineWithoutRepeats(res, order) ==
    res[SQL]
    \o SelectSeq(res[XSS], LAMBDA v : \A k \in 1..Len(res[SQL]) : res[SQL][k] # v)
    \o SelectSeq(res[CRED], LAMBDA v : /\ \A k \in 1..Len(res[SQL]) : res[SQL][k] # v
                                      /\ \A k \in 1..Len(res[XSS]) : res[XSS][k] # v)

\* [...sqlInjectionResults, ...xssResults, ...credentialsResults]: Promise.all
\* gives the results in the order of its arguments
CombineResults(res, order) == res[SQL] \o res[XSS] \o res[CRED]

\* code.split('\n').length
LineCount(c) == Cardinality({i \in 1..Len(c) : c[i] = NL}) + 1

\* vulnerabilities.filter((v) => v.type.includes(needle)).length
CountType(vulnerabilities, needle) ==
    Cardinality({k \in 1..Len(vulnerabilities) : Includes(vulnerabilities[k].type, needle)})

\* vulnerabilities.filter((v) => v.severity === severity).length
CountSeverity(vulnerabilities, severity) ==
    Cardinality({k \in 1..Len(vulnerabilities) : vulnerabilities[k].severity = <<severity>>})

\* the summary counts of the response
Summary(vulnerabilities) ==
    [total |-> Len(vulnerabilities),
     by_type |->
       [sql_injection |-> CountType(vulnerabilities, "SQL"),
        xss |-> CountType(vulnerabilities, "XSS"),
        hardcoded_credentials |-> CountType(vulnerabilities, "Credential")],
     by_severity |->
       [critical |-> CountSeverity(vulnerabilities, "CRITICAL"),
        high |-> CountSeverity(vulnerabilities, "HIGH"),
        medium |-> CountSeverity(vulnerabilities, "MEDIUM"),
        low |-> CountSeverity(vulnerabilities, "LOW")]]

\* the body of the 200 response
ScanResponse(res, order, c) ==
    With(SortByLine(formatVulnerabilitiesForFrontend(CombineResults(res, order)), "line"),
         LAMBDA vulnerabilities :
      [status |-> "success",
       lines_scanned |-> LineCount(c),
       vulnerabilities |-> vulnerabilities,
       summary |-> Summary(vulnerabilities)])

Pending == [status |-> "pending"]

\* the 400 responses of the file checks
ClientError == [status |-> "client_error"]

\* the 500 response of the handler's catch
ServerError == [status |-> "error"]

-----------------------------------------------------------------------------
(* The model's responses: what ai.run may return *)

Finding(type, severity, line, confidence) ==
    Obj([vulnerability_type |-> Str(type), severity |-> Str(severity),
         line_number |-> Num(100 * line), code_snippet |-> Str(<<"query">>),
         explanation |-> Str(<<"tainted">>), fix_suggestion |-> Str(<<"bind">>),
         confidence |-> confidence])

\* the record of the prompt's example: a string concatenation on line 7
RawScenario == Finding(<<"SQL", " ", "Injection">>, <<"CRITICAL">>, 7, Num(95))

\* lower-case severity, confidence above 1
RawLow == Finding(<<"XSS">>, <<"low">>, 9, Num(150))

\* no type, unrecognized severity, confidence that is no number
RawSevere ==
    Obj([severity |-> Str(<<"severe">>), line_number |-> Num(300),
         confidence |-> Str(<<"high">>)])

\* negative line number, null severity, negative confidence
RawNegative ==
    Obj([line_number |-> Num(0 - 400), severity |-> Null, confidence |-> Num(0 - 50)])

\* a closing brace inside a string, confidence 0, the line of RawScenario
RawBrace ==
    Obj([vulnerability_type |-> Str(<<"Hard-coded", " ", "Credentials">>),
         line_number |-> Num(700), code_snippet |-> Str(<<"a", "}">>),
         confidence |-> Num(0)])

\* a snippet that holds a fenced block of its own
RawFenced ==
    Obj([vulnerability_type |-> Str(<<"XSS">>), line_number |-> Num(500),
         code_snippet |-> Str(<<FENCE, "html", FENCE>>)])

\* none of vulnerability_type, line_number, code_snippet
RawNoise == Obj([severity |-> Str(<<"HIGH">>)])

TextScenario == Stringify(Arr(<<RawScenario>>))

TextMixed == Stringify(Arr(<<RawLow, RawSevere>>))

TextOdd == Stringify(Arr(<<RawNegative, RawBrace, RawNoise>>))

TextProse == <<"I", " ", "cannot", " ", "find", " ", "any", " ", "issues", ".">>

\* one object and no array around it
TextBare == Stringify(RawScenario)

\* two complete objects, cut inside the key of a third
TextTruncated ==
    <<"[">> \o Stringify(RawLow) \o <<",">> \o Stringify(RawScenario) \o
    <<",", "{", QUOTE, "vulnerability_type", QUOTE, ":", QUOTE, "XSS", QUOTE, ",",
      QUOTE, "line_nu">>

\* a complete array whose second object lacks a comma
TextBroken ==
    <<"[">> \o Stringify(RawScenario) \o
    <<",", "{", QUOTE, "line_number", QUOTE, ":", " ", "3", " ",
      QUOTE, "severity", QUOTE, ":", QUOTE, "HIGH", QUOTE, "}", "]">>

\* prose around a fenced array
TextFenced ==
    <<"Here", " ", "you", " ", "go", ":", NL, FENCE, "json", NL>> \o
    Stringify(Arr(<<RawBrace>>)) \o <<NL, FENCE, NL, "Done", ".">>

Responses ==
    {Str(TextScenario), Str(TextMixed), Str(TextProse), Str(TextTruncated),
     Str(TextFenced), Str(TextBare), Str(<<>>), Undef, Null,
     Obj(EmptyFields),
     Obj([response |-> Str(TextOdd)]),
     Obj([result |-> Str(TextBroken)]),
     Obj([response |-> Num(500)]),
     Obj([response |-> Obj([text |-> Str(TextMixed)])]),
     Obj([response |-> Obj([text |-> Str(TextMixed)]), result |-> Str(TextBare)]),
     Obj([choices |-> Arr(<<Obj([message |-> Obj([content |-> Str(TextScenario)])])>>)]),
     Obj([findings |-> Arr(<<RawLow>>)])}

\* the most finding objects in a response text of the extractor's cases
MaxObjs == 2

\* the finding objects a response text is made of
RawObjects == {RawScenario, RawLow, RawBrace, RawSevere, RawFenced, RawNoise}

\* how the text ends: a closed array, or the array cut in a key, in a key
\* after a line number, in a string after a line number, or in a string with
\* no line number before it
Tails == {"closed", "key", "line", "string", "snippet"}

CutTails == Tails \ {"closed"}

\* what surrounds the array: nothing, prose and a fenced block, a fenced
\* block that was cut before its closing fence, prose with a line_number
\* field before the array, or a fenced block with a line_number field after it
Wrappers == {"plain", "fenced", "open", "prefaced", "remarked"}

Cases ==
    [objects : UNION {[1..n -> RawObjects] : n \in 0..MaxObjs},
     tail : Tails, wrapper : Wrappers, detector : DetectorSet]

RECURSIVE RenderObjects(_, _)
\* the object literals from the i-th on, with commas between them
RenderObjects(objects, i) ==
    IF i > Len(objects) THEN <<>>
    ELSE Stringify(objects[i]) \o
         (IF i < Len(objects) THEN <<",">> \o RenderObjects(objects, i + 1) ELSE <<>>)

\* the object the response was cut in
PartialObject(tail) ==
    <<"{", QUOTE, "vulnerability_type", QUOTE, ":", QUOTE, "XSS", QUOTE, ",", QUOTE>> \o
    (CASE tail = "key" -> <<"line_nu">>
       [] tail = "line" -> <<"line_number", QUOTE, ":", "4", ",", QUOTE, "code_sn">>
       [] tail = "string" ->
            <<"line_number", QUOTE, ":", "4", ",", QUOTE, "code_snippet", QUOTE, ":",
              QUOTE, "if", "(", "a", ")", "{", "b", "}">>
       [] tail = "snippet" ->
            <<"code_snippet", QUOTE, ":", QUOTE, "a", "}">>)

RenderTail(tail, n) ==
    IF tail = "closed" THEN <<"]">>
    ELSE (IF n > 0 THEN <<",">> ELSE <<>>) \o PartialObject(tail)

RenderArray(c) ==
    <<"[">> \o RenderObjects(c.objects, 1) \o RenderTail(c.tail, Len(c.objects))

Wrap(wrapper, array) ==
    CASE wrapper = "plain" -> array
      [] wrapper = "fenced" ->
           <<"Here", " ", "you", " ", "go", ":", NL, FENCE, "json", NL>> \o array \o
           <<NL, FENCE, NL, "Done", ".">>
      [] wrapper = "open" -> <<FENCE, "json", NL>> \o array
      [] wrapper = "prefaced" ->
           <<"See", " ", QUOTE, "line_number", QUOTE, ":", " ", "2", NL>> \o array
      [] wrapper = "remarked" ->
           <<FENCE, "json", NL>> \o array \o
           <<NL, FENCE, NL, "Also", " ", QUOTE, "line_number", QUOTE, ":", "6">>

\* the response text of a case
Render(c) == Wrap(c.wrapper, RenderArray(c))

NoCase == [objects |-> <<>>, tail |-> "closed", wrapper |-> "plain", detector |-> SQL]

NotExtracted == [findings |-> <<>>, stage |-> "none"]

\* detect's settlement for every detector and response, worked out once
DetectOutcome == [d \in DetectorSet, r \in Responses |-> DetectResponse(d, r)]

\* the elements a parsed array may hold: objects with any of the fields
\* absent (undefined) or of an unexpected type, and values that are no object
RawCandidates ==
    {Obj(f) : f \in
        [vulnerability_type : {Undef, Str(<<>>), Str(<<"XSS">>), Arr(<<>>)},
         severity : {Undef, Null, Str(<<"low">>), Str(<<"MEDIUM">>), Str(<<"CRITICAL">>),
                     Str(<<" ", "high", NL>>), Str(<<"severe">>)},
         line_number : {Undef, Null, Num(0), Num(700), Num(0 - 400), Str(<<"1", "2">>)},
         code_snippet : {Undef, Str(<<>>), Str(<<"query">>)},
         explanation : {Undef, Str(<<"tainted">>)},
         confidence : {Undef, Num(0), Num(50), Num(150), Num(0 - 50), Str(<<"high">>),
                       Str(<<"0", ".", "3">>)}]}
    \cup {Null, Num(700), Str(<<"query">>), Arr(<<>>)}

\* the uploaded text: empty, blank, or three lines of code
Codes == {<<>>, <<" ", NL, " ">>, <<"query", NL, " ", NL, "run">>}

Files == {"none", "badtype", "toolarge", "ok"}

-----------------------------------------------------------------------------
(* POST /api/scan *)

NotCalled == [kind |-> "none"]

Returned(r) == [kind |-> "return", v |-> r]

Threw == [kind |-> "throw"]

\* detect without the check of env.AI
DetectStartUnchecked(c, ai) == IF IsBlank(c) THEN "fulfilled" ELSE "awaiting"

\* detect without the check of empty code
DetectStartAlways(c, ai) == IF ~ai THEN "rejected" ELSE "awaiting"

\* detect up to its first await: "fulfilled" (empty code), "rejected" (no AI
\* binding) or "awaiting" (ai.run called)
DetectStart(c, ai) ==
    IF IsBlank(c) THEN "fulfilled"
    ELSE IF ~ai THEN "rejected"
    ELSE "awaiting"

RECURSIVE SplitLines(_)
\* code.split('\n')
SplitLines(c) ==
    IF IndexOf(c, NL) = 0 THEN <<c>>
    ELSE <<SubSeq(c, 1, IndexOf(c, NL) - 1)>> \o SplitLines(SubstringFrom(c, IndexOf(c, NL) + 1))

RECURSIVE JoinLines(_, _)
\* lines.join('\n'), from line i on
JoinLines(lines, i) ==
    IF i > Len(lines) THEN <<>>
    ELSE lines[i] \o (IF i < Len(lines) THEN <<NL>> \o JoinLines(lines, i + 1) ELSE <<>>)

\* a numbering that writes the index of the line, which starts at 0
addLineNumbersFromZero(c) ==
    JoinLines([i \in 1..Len(SplitLines(c)) |->
                 IntDigits(i - 1) \o <<":", " ">> \o SplitLines(c)[i]], 1)

\* code.split('\n').map((line, index) => `${index + 1}: ${line}`).join('\n')
addLineNumbers(c) ==
    JoinLines([i \in 1..Len(SplitLines(c)) |->
                 IntDigits(i) \o <<":", " ">> \o SplitLines(c)[i]], 1)

NoPrompt == [numberedCode |-> <<>>, totalLines |-> 0]

\* what buildPrompt puts into the prompt of the code: ${numberedCode} and
\* ${totalLines}
buildPrompt(c) ==
    [numberedCode |-> addLineNumbers(c), totalLines |-> Len(SplitLines(c))]

\* ai.run called without options: the defaults of the model are used
RunOptionsDefault == [messages |-> <<"user">>]

\* the second argument of ai.run: one user message, max_tokens 8192,
\* temperature 0.1 (in hundredths)
RunOptions == [messages |-> <<"user">>, max_tokens |-> 8192, temperature |-> 10]

\* a join that waits until every promise has settled before it fails
JoinAfterAll(out, tasks, res, order, c) ==
    IF out.status # "pending" THEN out
    ELSE IF \E d \in DetectorSet : tasks[d] \in {"idle", "awaiting"} THEN out
    ELSE IF \E d \in DetectorSet : tasks[d] = "rejected" THEN ServerError
    ELSE ScanResponse(res, order, c)

\* a join that answers with what it has once two detectors have returned
JoinPartial(out, tasks, res, order, c) ==
    IF out.status # "pending" THEN out
    ELSE IF \E d \in DetectorSet : tasks[d] = "rejected" THEN ServerError
    ELSE IF Cardinality({d \in DetectorSet : tasks[d] = "fulfilled"}) >= 2
    THEN ScanResponse(res, order, c)
    ELSE out

\* a join that waits for every promise and takes a rejection for no findings
JoinSettled(out, tasks, res, order, c) ==
    IF out.status # "pending" THEN out
    ELSE IF \A d \in DetectorSet : tasks[d] \in {"fulfilled", "rejected"}
    THEN ScanResponse(res, order, c)
    ELSE out

\* a join that answers again once every promise has settled, with what the
\* detectors that returned have found
JoinAnsweringAgain(out, tasks, res, order, c) ==
    IF out.status \in {"success", "client_error"} THEN out
    ELSE IF \A d \in DetectorSet : tasks[d] \in {"fulfilled", "rejected"}
    THEN ScanResponse(res, order, c)
    ELSE IF \E d \in DetectorSet : tasks[d] = "rejected" THEN ServerError
    ELSE out

\* a handler without the catch: a rejection produces no response
JoinWithoutCatch(out, tasks, res, order, c) ==
    IF out.status # "pending" THEN out
    ELSE IF \A d \in DetectorSet : tasks[d] = "fulfilled" THEN ScanResponse(res, order, c)
    ELSE out

\* the handler after Promise.all: it rejects with the first rejection and
\* fulfills once all three promises have
Join(out, tasks, res, order, c) ==
    IF out.status # "pending" THEN out
    ELSE IF \E d \in DetectorSet : tasks[d] = "rejected" THEN ServerError
    ELSE IF \A d \in DetectorSet : tasks[d] = "fulfilled" THEN ScanResponse(res, order, c)
    ELSE out

Init ==
    /\ file \in Files
    /\ code \in Codes
    /\ aiPresent \in BOOLEAN
    /\ task = [d \in DetectorSet |-> "idle"]
    /\ received = [d \in DetectorSet |-> NotCalled]
    /\ results = [d \in DetectorSet |-> <<>>]
    /\ completed = <<>>
    /\ invocations = [d \in DetectorSet |-> 0]
    /\ requests = [d \in DetectorSet |-> <<>>]
    /\ prompt = [d \in DetectorSet |-> NoPrompt]
    /\ outcome = Pending
    /\ exCase = NoCase
    /\ exText = Render(NoCase)
    /\ exOut = NotExtracted
    /\ element = [raw |-> Null, detector |-> SQL]
    /\ screened = "no"
    /\ records = <<>>

\* the file checks: no file, a wrong extension, or more than 1 MB
RejectFile ==
    /\ outcome = Pending
    /\ file # "ok"
    /\ outcome' = ClientError
    /\ UNCHANGED <<file, code, aiPresent, task, received, results, completed,
                   invocations, exCase, exText, exOut,
                   element, screened, records, requests, prompt>>

\* the three detect calls, each run to its first await, and Promise.all
StartScan ==
    /\ outcome = Pending
    /\ file = "ok"
    /\ \A d \in DetectorSet : task[d] = "idle"
    /\ task' = [d \in DetectorSet |-> DetectStart(code, aiPresent)]
    /\ invocations' = [d \in DetectorSet |->
                         IF task'[d] = "awaiting" THEN invocations[d] + 1
                         ELSE invocations[d]]
    /\ requests' = [d \in DetectorSet |->
                      IF task'[d] = "awaiting" THEN Append(requests[d], RunOptions)
                      ELSE requests[d]]
    /\ completed' = SelectSeq(Detectors, LAMBDA d : task'[d] # "awaiting")
    /\ outcome' = Join(outcome, task', results, completed', code)
    /\ prompt' = [d \in DetectorSet |->
                    IF task'[d] = "awaiting" THEN buildPrompt(code) ELSE prompt[d]]
    /\ UNCHANGED <<file, code, aiPresent, received, results, exCase, exText, exOut,
                   element, screened, records>>

\* ai.run returns r to detector d, which resolves, extracts and normalizes
ModelReturn(d, r) ==
    /\ task[d] = "awaiting"
    /\ received' = [received EXCEPT ![d] = Returned(r)]
    /\ task' = [task EXCEPT ![d] = DetectOutcome[d, r].kind]
    /\ results' = [results EXCEPT ![d] = DetectOutcome[d, r].findings]
    /\ completed' = Append(completed, d)
    /\ outcome' = Join(outcome, task', results', completed', code)
    /\ UNCHANGED <<file, code, aiPresent, invocations, exCase, exText, exOut,
                   element, screened, records, requests, prompt>>

\* ai.run throws in detector d: detect rethrows
ModelThrow(d) ==
    /\ task[d] = "awaiting"
    /\ received' = [received EXCEPT ![d] = Threw]
    /\ task' = [task EXCEPT ![d] = "rejected"]
    /\ completed' = Append(completed, d)
    /\ outcome' = Join(outcome, task', results, completed', code)
    /\ UNCHANGED <<file, code, aiPresent, results, invocations, exCase, exText, exOut,
                   element, screened, records, requests, prompt>>

Next ==
    \/ RejectFile
    \/ StartScan
    \/ \E d \in DetectorSet : \E r \in Responses : ModelReturn(d, r)
    \/ \E d \in DetectorSet : ModelThrow(d)

Spec == Init /\ [][Next]_vars

\* ai.run settles the call of detector d
Settle(d) == ModelThrow(d) \/ \E r \in Responses : ModelReturn(d, r)

\* the scan under a runtime that runs the handler once the request has
\* arrived and a model whose every started invocation returns or throws
FairSpec ==
    /\ Spec
    /\ WF_vars(RejectFile)
    /\ WF_vars(StartScan)
    /\ \A d \in DetectorSet : WF_vars(Settle(d))

-----------------------------------------------------------------------------
(* extractAndParseJSON over the response texts of Cases *)

ExtractInit ==
    /\ file = "ok"
    /\ code = <<>>
    /\ aiPresent = TRUE
    /\ task = [d \in DetectorSet |-> "idle"]
    /\ received = [d \in DetectorSet |-> NotCalled]
    /\ results = [d \in DetectorSet |-> <<>>]
    /\ completed = <<>>
    /\ invocations = [d \in DetectorSet |-> 0]
    /\ requests = [d \in DetectorSet |-> <<>>]
    /\ prompt = [d \in DetectorSet |-> NoPrompt]
    /\ outcome = Pending
    /\ exCase \in Cases
    /\ exText = Render(exCase)
    /\ exOut = NotExtracted
    /\ element = [raw |-> Null, detector |-> SQL]
    /\ screened = "no"
    /\ records = <<>>

\* the detector of the case extracts from the text
Extract ==
    /\ exOut = NotExtracted
    /\ exOut' = extractAndParseJSON(exText, exCase.detector)
    /\ UNCHANGED <<file, code, aiPresent, task, received, results, completed,
                   invocations, outcome, exCase, exText,
                   element, screened, records, requests, prompt>>

ExtractSpec == ExtractInit /\ [][Extract]_vars

-----------------------------------------------------------------------------
(* buildPrompt over source codes *)

\* the longest source code, in symbols
MaxCode == 4

\* the symbols of a source code: a word, a colon, a newline
CodeSymbols == {"run", ":", NL}

SourceCodes == UNION {[1..n -> CodeSymbols] : n \in 0..MaxCode}

PromptInit ==
    /\ file = "ok"
    /\ code \in SourceCodes
    /\ aiPresent = TRUE
    /\ task = [d \in DetectorSet |-> "idle"]
    /\ received = [d \in DetectorSet |-> NotCalled]
    /\ results = [d \in DetectorSet |-> <<>>]
    /\ completed = <<>>
    /\ invocations = [d \in DetectorSet |-> 0]
    /\ requests = [d \in DetectorSet |-> <<>>]
    /\ prompt = [d \in DetectorSet |-> NoPrompt]
    /\ outcome = Pending
    /\ exCase = NoCase
    /\ exText = Render(NoCase)
    /\ exOut = NotExtracted
    /\ element = [raw |-> Null, detector |-> SQL]
    /\ screened = "no"
    /\ records = <<>>

\* detector d builds its prompt for code that is not blank
BuildPrompt(d) ==
    /\ ~IsBlank(code)
    /\ prompt[d] = NoPrompt
    /\ prompt' = [prompt EXCEPT ![d] = buildPrompt(code)]
    /\ UNCHANGED <<file, code, aiPresent, task, received, results, completed,
                   invocations, outcome, exCase, exText, exOut,
                   element, screened, records, requests>>

PromptSpec == PromptInit /\ [][\E d \in DetectorSet : BuildPrompt(d)]_vars

-----------------------------------------------------------------------------
(* isValidVulnerability and normalizeVulnerability over RawCandidates *)

\* a records record as the object it is in JavaScript
AsRaw(vuln) ==
    Obj([vulnerability_type |-> Str(vuln.vulnerability_type),
         severity |-> Str(vuln.severity),
         line_number |-> Num(100 * vuln.line_number),
         code_snippet |-> Str(vuln.code_snippet),
         explanation |-> Str(vuln.explanation),
         fix_suggestion |-> Str(vuln.fix_suggestion),
         confidence |-> Num(vuln.confidence)])

NormalizeInit ==
    /\ file = "ok"
    /\ code = <<>>
    /\ aiPresent = TRUE
    /\ task = [d \in DetectorSet |-> "idle"]
    /\ received = [d \in DetectorSet |-> NotCalled]
    /\ results = [d \in DetectorSet |-> <<>>]
    /\ completed = <<>>
    /\ invocations = [d \in DetectorSet |-> 0]
    /\ requests = [d \in DetectorSet |-> <<>>]
    /\ prompt = [d \in DetectorSet |-> NoPrompt]
    /\ outcome = Pending
    /\ exCase = NoCase
    /\ exText = Render(NoCase)
    /\ exOut = NotExtracted
    /\ element \in [raw : RawCandidates, detector : DetectorSet]
    /\ screened = "no"
    /\ records = <<>>

\* [element].filter(isValidVulnerability).map(normalizeVulnerability)
Normalize ==
    /\ screened = "no"
    /\ screened' = IF isValidVulnerability(element.raw) THEN "kept" ELSE "discarded"
    /\ records' = FilterAndNormalize(<<element.raw>>, 1, element.detector)
    /\ UNCHANGED <<file, code, aiPresent, task, received, results, completed,
                   invocations, outcome, exCase, exText, exOut, element, requests, prompt>>

\* normalizeVulnerability applied to the record it returned
Renormalize ==
    /\ screened = "kept"
    /\ Len(records) = 1
    /\ records' = Append(records,
                            normalizeVulnerability(AsRaw(records[1]), element.detector))
    /\ UNCHANGED <<file, code, aiPresent, task, received, results, completed,
                   invocations, outcome, exCase, exText, exOut, element,
                   screened, requests, prompt>>

NormalizeSpec == NormalizeInit /\ [][Normalize \/ Renormalize]_vars

-----------------------------------------------------------------------------
(* Properties *)

\* the findings of a successful response, or none
Vulnerabilities == IF outcome.status = "success" THEN outcome.vulnerabilities ELSE <<>>

\* C1: every finding a detector returns, whichever extractor stage produced
\* it, and every finding of a successful scan response, has one of the four
\* severities and a confidence between 0 and 1 (0..100 hundredths).
C1_SeverityAndConfidenceInRange ==
    /\ \A d \in DetectorSet : \A k \in 1..Len(results[d]) :
          /\ results[d][k].severity \in {<<"CRITICAL">>, <<"HIGH">>, <<"MEDIUM">>, <<"LOW">>}
          /\ results[d][k].confidence \in 0..100
    /\ \A k \in 1..Len(Vulnerabilities) :
          /\ Vulnerabilities[k].severity \in {<<"CRITICAL">>, <<"HIGH">>, <<"MEDIUM">>, <<"LOW">>}
          /\ Vulnerabilities[k].confidence \in 0..100

\* a successful scan whose detectors records a lower-case severity and a
\* confidence above 1 (direct parse), a repaired truncated array, and a
\* finding synthesized from a line number
C1_Witness ==
    /\ outcome.status = "success"
    /\ received[SQL] = Returned(Obj([result |-> Str(TextBroken)]))
    /\ received[XSS] = Returned(Str(TextMixed))
    /\ received[CRED] = Returned(Str(TextTruncated))
    /\ Len(Vulnerabilities) = 6

\* C2: every finding a detector's normalizer emits has a line_number that is
\* an integer >= 0, whatever the raw line_number was.
C2_LineNumberNotNegative ==
    \A d \in DetectorSet : \A k \in 1..Len(results[d]) : results[d][k].line_number \in Nat

\* C3: when any detector fails, the scan ends in the error outcome, which
\* carries no findings, whatever the other detectors returned.
C3_AnyFailureFailsScan ==
    (\E d \in DetectorSet : task[d] = "rejected")
        => (outcome.status = "error" /\ "vulnerabilities" \notin DOMAIN outcome)

\* the model threw for one detector after another had returned findings
C3_Witness ==
    /\ outcome.status = "error"
    /\ \E d \in DetectorSet : received[d] = Threw
    /\ \E d \in DetectorSet : task[d] = "fulfilled" /\ results[d] # <<>>

\* a response no text can be resolved from: null, undefined, the empty
\* string, or an object whose fields hold no string, object or array
Unresolvable(r) ==
    \/ r.t \in {"null", "undefined"}
    \/ r = Str(<<>>)
    \/ /\ r.t = "object"
       /\ \A k \in DOMAIN r.f : r.f[k].t \in {"number", "boolean", "null", "undefined"}

\* C4: a detector that receives a response no text can be resolved from
\* returns an empty list and does not fail.
C4_UnresolvableGivesEmptyList ==
    \A d \in DetectorSet :
        (received[d].kind = "return" /\ Unresolvable(received[d].v))
            => (task[d] = "fulfilled" /\ results[d] = <<>>)

\* C5: a detector fails only when the capability is absent or the model
\* invocation throws, and only then does the scan fail.
C5_FailsOnlyOnCapabilityOrInvocation ==
    /\ \A d \in DetectorSet :
          task[d] = "rejected" => (~aiPresent \/ received[d] = Threw)
    /\ outcome.status = "error"
          => (~aiPresent \/ \E d \in DetectorSet : received[d] = Threw)

\* C6 as stated: for every code, a detector called without the capability
\* fails.
C6_AbsentCapabilityAlwaysFails ==
    \A d \in DetectorSet : (~aiPresent /\ task[d] # "idle") => task[d] = "rejected"

\* C6: for every code that is not empty after trimming, a detector called
\* without the capability fails, returns no list and invokes nothing.
C6_AbsentCapabilityFailsForCode ==
    \A d \in DetectorSet :
        (~aiPresent /\ ~IsBlank(code) /\ task[d] # "idle")
            => /\ task[d] = "rejected"
               /\ results[d] = <<>>
               /\ invocations[d] = 0
               /\ outcome.status = "error"

\* code was scanned without the capability
C6_Witness ==
    /\ ~aiPresent
    /\ ~IsBlank(code)
    /\ \A d \in DetectorSet : task[d] = "rejected"
    /\ outcome.status = "error"

\* C7: for code that is empty after trimming, every detector returns an empty
\* list without invoking the model, and the scan succeeds with no findings.
C7_BlankCodeShortCircuits ==
    IsBlank(code) =>
        /\ \A d \in DetectorSet :
              /\ invocations[d] = 0
              /\ task[d] \in {"idle", "fulfilled"}
              /\ results[d] = <<>>
        /\ (\E d \in DetectorSet : task[d] # "idle")
              => /\ outcome.status = "success"
                 /\ outcome.vulnerabilities = <<>>
                 /\ outcome.summary.total = 0

\* a whitespace-only file was scanned
C7_Witness ==
    /\ code # <<>>
    /\ IsBlank(code)
    /\ outcome.status = "success"
    /\ \A d \in DetectorSet : task[d] = "fulfilled"

\* the detectors' findings as the response shows them, in invocation order
InInvocationOrder ==
    formatVulnerabilitiesForFrontend(results[SQL] \o results[XSS] \o results[CRED])

\* C8: the findings of a successful response are in ascending line order and
\* are determined by the three detector outputs, not by the order in which
\* the detectors completed.
C8_SortedWhateverTheCompletionOrder ==
    outcome.status = "success" =>
        /\ \A i, j \in 1..Len(Vulnerabilities) :
              i < j => Vulnerabilities[i].line <= Vulnerabilities[j].line
        /\ Vulnerabilities = SortByLine(InInvocationOrder, "line")

\* the detectors completed in the reverse of their invocation order, with
\* findings that are out of line order as returned
C8_Witness ==
    /\ outcome.status = "success"
    /\ completed = <<CRED, XSS, SQL>>
    /\ Len(Vulnerabilities) >= 3
    /\ \E i, j \in 1..Len(InInvocationOrder) :
          i < j /\ InInvocationOrder[i].line > InInvocationOrder[j].line

\* the findings of seq on line n, in their order
OnLine(seq, n) == SelectSeq(seq, LAMBDA v : v.line = n)

\* C9: in a successful response, the findings of one line are in detector
\* invocation order and, within a detector, in its output order.
C9_TiesInInvocationOrder ==
    outcome.status = "success" =>
        \A k \in 1..Len(InInvocationOrder) :
            OnLine(Vulnerabilities, InInvocationOrder[k].line)
                = OnLine(InInvocationOrder, InInvocationOrder[k].line)

\* two detectors reported different findings on one line, and the later
\* invoked one completed first
C9_Witness ==
    /\ outcome.status = "success"
    /\ completed[1] = CRED
    /\ \E i \in 1..Len(results[SQL]) : \E j \in 1..Len(results[CRED]) :
          /\ results[SQL][i].line_number = results[CRED][j].line_number
          /\ results[SQL][i] # results[CRED][j]

\* C10: from an array cut in the middle of an object, the extractor returns
\* no fewer findings than there are complete objects before the cut.
C10_CutKeepsCompleteObjects ==
    (exOut # NotExtracted /\ exCase.tail \in CutTails)
        => Len(exOut.findings) >= Len(exCase.objects)

\* the distinct line numbers written as line_number fields in the response
\* text
TextualLineNumbers == FoundLineNumbers(exText)

\* C11: when the extractor gets to per-object recovery and line-number
\* reconciliation, every line number written as a line_number field in the
\* response is the line_number of a finding it returns.
C11_LineNumbersCovered ==
    exOut.stage \in {"recovered", "reconciled"} =>
        \A k \in 1..Len(TextualLineNumbers) :
            \E j \in 1..Len(exOut.findings) :
                exOut.findings[j].line_number = TextualLineNumbers[k]

\* C12: when the response text is a valid JSON array, the extractor returns
\* the valid elements of its direct parse, records, in their order, and
\* no later stage takes part.
C12_ValidArrayParsedDirectly ==
    (exOut # NotExtracted /\ JSONParse(exText).ok /\ JSONParse(exText).v.t = "array")
        => exOut = Parsed(JSONParse(exText).v, exCase.detector, "direct")

\* the text detector d resolved from the response it received
ResolvedText(d) ==
    IF received[d].kind = "return" THEN ResolveResponseText(d, received[d].v) ELSE NoText

\* C13: when the resolved text holds no opening bracket, the extractor
\* returns an empty list at the array boundary check, with or without
\* line_number fields in the text, and the detector returns an empty list
\* and does not fail.
C13_NoArrayGivesEmptyList ==
    \A d \in DetectorSet :
        (ResolvedText(d).kind = "text" /\ IndexOf(ResolvedText(d).text, "[") = 0)
            => /\ extractAndParseJSON(ResolvedText(d).text, d)
                      \in {[findings |-> <<>>, stage |-> "empty"],
                           [findings |-> <<>>, stage |-> "noarray"]}
               /\ task[d] = "fulfilled"
               /\ results[d] = <<>>

\* one detector was given prose, another an object with a line_number field
\* and no array, and the scan succeeded
C13_Witness ==
    /\ \E d \in DetectorSet :
          /\ received[d] = Returned(Str(TextBare))
          /\ FoundLineNumbers(ResolvedText(d).text) # <<>>
          /\ results[d] = <<>>
    /\ \E d \in DetectorSet : received[d] = Returned(Str(TextProse))
    /\ outcome.status = "success"

\* C14: normalizing a record that normalization returned gives a record equal
\* to it in all seven fields.
C14_NormalizerIdempotent ==
    Len(records) = 2 => records[2] = records[1]

\* the field of the element is present
Present(raw, key) == Get(raw, key).t # "undefined"

\* C15: a element is discarded exactly when none of vulnerability_type,
\* line_number, code_snippet is present in it; otherwise it is kept and
\* records.
C15_DiscardedIffNoneOfThreePresent ==
    screened # "no" =>
        /\ screened = "discarded"
              <=> ~(\/ Present(element.raw, "vulnerability_type")
                    \/ Present(element.raw, "line_number")
                    \/ Present(element.raw, "code_snippet"))
        /\ screened = "kept"
              => records[1] = normalizeVulnerability(element.raw, element.detector)

\* C16: in a successful response the counts by category are the numbers of
\* findings the SQL injection, the XSS and the credentials detector returned,
\* and they add up to the total.
C16_CountsByDetector ==
    outcome.status = "success" =>
        /\ outcome.summary.by_type.sql_injection = Len(results[SQL])
        /\ outcome.summary.by_type.xss = Len(results[XSS])
        /\ outcome.summary.by_type.hardcoded_credentials = Len(results[CRED])
        /\ outcome.summary.by_type.sql_injection + outcome.summary.by_type.xss
              + outcome.summary.by_type.hardcoded_credentials = outcome.summary.total

\* the fields of a finding that do not depend on the detector's default
\* strings
Core(vuln) ==
    [line_number |-> vuln.line_number, severity |-> vuln.severity,
     code_snippet |-> vuln.code_snippet, confidence |-> vuln.confidence]

\* C17: two detectors given the same response value both succeed or both
\* fail, and return as many findings, equal in line_number, severity,
\* code_snippet and confidence.
C17_DetectorsAgree ==
    \A d, e \in DetectorSet :
        (received[d].kind = "return" /\ received[e] = received[d])
            => /\ task[d] = task[e]
               /\ Len(results[d]) = Len(results[e])
               /\ \A k \in 1..Min(Len(results[d]), Len(results[e])) :
                     Core(results[d][k]) = Core(results[e][k])

\* C18 as stated: the outcome of the scan, success or failure, is produced
\* only after all three detectors have settled, and is a failure if any of
\* them failed.
C18_OutcomeAfterAllSettled ==
    outcome.status \in {"success", "error"} =>
        /\ \A d \in DetectorSet : task[d] \in {"fulfilled", "rejected"}
        /\ outcome.status = "error" <=> \E d \in DetectorSet : task[d] = "rejected"

\* C18: the scan succeeds only once all three detectors have returned, and
\* exactly then; it fails as soon as one detector fails, whether or not the
\* others have settled, and only then.
C18_AllToSucceedOneToFail ==
    /\ outcome.status = "success" <=> \A d \in DetectorSet : task[d] = "fulfilled"
    /\ outcome.status = "error" <=> \E d \in DetectorSet : task[d] = "rejected"

\* the scan has failed on the first failure while another detector is still
\* waiting for the model
C18_Witness ==
    /\ outcome.status = "error"
    /\ Len(completed) = 1
    /\ received[completed[1]] = Threw
    /\ \E d \in DetectorSet : task[d] = "awaiting"

\* C19 as stated: while the invocation of one detector has not returned, the
\* scan has no outcome, whatever the other two detectors do.
C19_NoOutcomeWhileOneAwaits ==
    (\E d \in DetectorSet : task[d] = "awaiting") => outcome = Pending

\* C19: while the invocation of one detector has not returned, that detector
\* stays waiting with nothing received, the scan has not succeeded, and it
\* has no outcome at all unless another detector has failed.
C19_NoSuccessWhileOneAwaits ==
    \A d \in DetectorSet :
        task[d] = "awaiting" =>
            /\ received[d] = NotCalled
            /\ outcome.status # "success"
            /\ outcome = Pending \/ \E e \in DetectorSet \ {d} : task[e] = "rejected"

\* two detectors have returned findings and the scan is still waiting for the
\* third
C19_Witness ==
    /\ task[XSS] = "awaiting"
    /\ task[SQL] = "fulfilled" /\ results[SQL] # <<>>
    /\ task[CRED] = "fulfilled" /\ results[CRED] # <<>>
    /\ outcome = Pending

\* C20: a detector calls the model at most once in a scan, also when the
\* call threw or its response could not be parsed, so a scan makes at most
\* three calls; each call has one user message, max_tokens 8192 and
\* temperature 0.1.
C20_OneInvocationFixedOptions ==
    /\ \A d \in DetectorSet :
          /\ invocations[d] <= 1
          /\ Len(requests[d]) = invocations[d]
          /\ task[d] \in {"awaiting", "rejected"} /\ aiPresent => invocations[d] = 1
          /\ received[d] # NotCalled => invocations[d] = 1
          /\ \A k \in 1..Len(requests[d]) :
                /\ DOMAIN requests[d][k] = {"messages", "max_tokens", "temperature"}
                /\ requests[d][k].messages = <<"user">>
                /\ requests[d][k].max_tokens = 8192
                /\ requests[d][k].temperature = 10
    /\ invocations[SQL] + invocations[XSS] + invocations[CRED] <= 3

\* the scan is over: one call threw, one returned prose, one a truncated
\* array, and each detector has called the model once
C20_Witness ==
    /\ received[SQL] = Threw
    /\ received[XSS] = Returned(Str(TextProse))
    /\ received[CRED] = Returned(Str(TextTruncated))
    /\ \A d \in DetectorSet : invocations[d] = 1 /\ Len(requests[d]) = 1

\* the ways the model's responses spell a severity
Spellings ==
    [CRITICAL |-> {"critical", "CRITICAL"}, HIGH |-> {"high", "HIGH"},
     MEDIUM |-> {"medium", "MEDIUM"}, LOW |-> {"low", "Low", "LOW"}]

\* the severities that the raw value names, in any case and with whitespace
\* around it
Named(severity) ==
    {w \in DOMAIN Spellings :
        /\ severity.t = "string"
        /\ \E x \in Spellings[w] : SelectSeq(severity.s, LAMBDA c : ~IsWs(c)) = <<x>>}

\* C21: the normalized severity is the severity the raw value names, and HIGH
\* when it names none (missing, null, unrecognized); the normalized
\* confidence is 0.85 when the raw value is missing or no number, and
\* otherwise the number clamped to [0,1]; the formatting step does not turn
\* an unrecognized severity into MEDIUM.
C21_SeverityAndConfidenceNormalized ==
    screened = "kept" =>
        /\ \A w \in Named(Get(element.raw, "severity")) : records[1].severity = <<w>>
        /\ Named(Get(element.raw, "severity")) = {} => records[1].severity = <<"HIGH">>
        /\ records[1].confidence =
              (CASE Get(element.raw, "confidence").t = "number" ->
                      Max(0, Min(100, Get(element.raw, "confidence").n))
                 [] Get(element.raw, "confidence") = Str(<<"0", ".", "3">>) -> 30
                 [] OTHER -> 85)
        /\ formatVulnerability(records[1]).severity = <<"MEDIUM">>
              => Named(Get(element.raw, "severity")) = {"MEDIUM"}

\* an element with an unrecognized severity and a confidence that is no
\* number was normalized
C21_Witness ==
    /\ screened = "kept"
    /\ Get(element.raw, "severity") = Str(<<"severe">>)
    /\ Get(element.raw, "confidence") = Str(<<"high">>)
    /\ records[1].severity = <<"HIGH">>
    /\ records[1].confidence = 85

\* the strings that the candidate keys of a response hold directly, in the
\* order of the keys
DirectStrings(response) == SelectSeq(Candidates(response), LAMBDA v : v.t = "string")

\* the strings one nesting level below the candidate keys, in the order of
\* the keys
NestedStrings(response) ==
    SelectSeq([k \in 1..Len(Candidates(response)) |-> Nested(Candidates(response)[k])],
              LAMBDA v : v.t = "string")

\* detector d resolved the string s; an empty string is resolved and then
\* treated as no text
Chose(d, s) ==
    \/ ResolvedText(d) = Text(s)
    \/ s = <<>> /\ ResolvedText(d) = NoText

\* C22: a detector resolves the response itself when it is a string, then
\* the first string that a candidate key holds directly, and a string one
\* nesting level below a candidate key only when no candidate key holds a
\* string directly.
C22_DirectBeforeNested ==
    \A d \in DetectorSet :
        received[d].kind = "return" =>
            /\ received[d].v.t = "string" => Chose(d, received[d].v.s)
            /\ (received[d].v.t = "object" /\ DirectStrings(received[d].v) # <<>>)
                  => Chose(d, Head(DirectStrings(received[d].v)).s)
            /\ (received[d].v.t = "object" /\ DirectStrings(received[d].v) = <<>>
                  /\ NestedStrings(received[d].v) # <<>>)
                  => Chose(d, Head(NestedStrings(received[d].v)).s)

\* the response text of the case without its fenced block's fences, from
\* its first opening bracket: what the stages of the extractor work on
Cleaned ==
    With(IF MatchCodeBlock(Trim(exText)).ok
         THEN Trim(MatchCodeBlock(Trim(exText)).group) ELSE Trim(exText),
         LAMBDA unwrapped : SubstringFrom(unwrapped, Max(1, IndexOf(unwrapped, "["))))

\* JSON.parse yielded an array
IsArray(parsed) == parsed.ok /\ parsed.v.t = "array"

\* the repair of the text, where the repair applies
RepairOf(cleaned) ==
    IF EndsWith(Trim(cleaned), "]") THEN ParseFail ELSE RepairTruncated(cleaned)

\* C23: the stages of the extractor escalate strictly.  When the direct
\* parse yields an array the output is its valid elements, also when there
\* are none; the repair produces the output only when the direct parse
\* yielded no array and the text does not end with a closing bracket, and
\* then the output is the valid elements of the repaired array; recovery and
\* reconciliation produce the output only when neither yielded an array.
C23_StrictEscalation ==
    exOut # NotExtracted =>
        With(Cleaned, LAMBDA cleaned :
        With(JSONParse(cleaned), LAMBDA direct :
        With(RepairOf(cleaned), LAMBDA repaired :
          IndexOf(cleaned, "[") # 0 =>
            /\ IsArray(direct) => exOut = Parsed(direct.v, exCase.detector, "direct")
            /\ (~IsArray(direct) /\ IsArray(repaired))
                  => exOut = Parsed(repaired.v, exCase.detector, "repaired")
            /\ exOut.stage = "repaired"
                  => ~IsArray(direct) /\ ~EndsWith(Trim(cleaned), "]")
            /\ exOut.stage \in {"recovered", "reconciled"}
                  => ~IsArray(direct) /\ ~IsArray(repaired)
            /\ exOut.stage \in {"direct", "repaired", "recovered", "reconciled"})))

\* a direct parse gave an array of elements none of which is a finding, and
\* the output is empty
C23_Witness ==
    /\ exOut.stage = "direct"
    /\ exOut.findings = <<>>
    /\ exCase.objects = <<RawNoise, RawNoise>>
    /\ IsArray(JSONParse(Cleaned))

C25_RepairKeepsCompleteObjects ==
    exOut # NotExtracted =>
        /\ With(Cleaned, LAMBDA cleaned :
           With(RepairOf(cleaned), LAMBDA repaired :
             (~IsArray(JSONParse(cleaned)) /\ IsArray(repaired))
                 => /\ exOut.findings = FilterAndNormalize(repaired.v.a, 1, exCase.detector)
                    /\ exCase.tail = "line"
                          => \A j \in 1..Len(exOut.findings) :
                                 exOut.findings[j].line_number # 4))
        /\ (exCase.tail \in {"key", "line"} /\ exCase.objects # <<>>
              /\ IndexOf(exText, FENCE) = 0)
              => exOut.findings = FilterAndNormalize(exCase.objects, 1, exCase.detector)

\* an array of two complete objects was cut after the line number of a
\* third, and the output is the two
C25_Witness ==
    /\ exOut.stage = "repaired"
    /\ exCase.tail = "line"
    /\ exCase.wrapper = "prefaced"
    /\ Len(exCase.objects) = 2
    /\ Len(exOut.findings) = 2
    /\ 4 \in {TextualLineNumbers[k] : k \in 1..Len(TextualLineNumbers)}

\* the numerals of the first line numbers
Numerals == <<"1", "2", "3", "4", "5", "6", "7">>

\* the positions of the newline characters of a text, and the ends of the
\* text
Breaks(s) == {0, Len(s) + 1} \cup {i \in 1..Len(s) : s[i] = NL}

\* the i-th line of a text: the characters between two breaks that follow
\* each other, i - 1 breaks being before the first of them
LineOf(s, i) ==
    With(CHOOSE a \in Breaks(s) : Cardinality({b \in Breaks(s) : b < a}) = i - 1,
         LAMBDA a :
      With(CHOOSE z \in Breaks(s) : Cardinality({b \in Breaks(s) : b < z}) = i,
           LAMBDA z : SubSeq(s, a + 1, z - 1)))

\* the number of lines of a text: its newline characters plus one
NumberOfLines(s) == Cardinality({i \in 1..Len(s) : s[i] = NL}) + 1

\* C26: for source code of n lines the numbered code of each detector's
\* prompt has n lines, its i-th line is the number i, a colon, a space and
\* the i-th line of the source code unchanged, and the line count the prompt
\* states is n.
C26_NumberedCodeLineByLine ==
    \A d \in DetectorSet :
        prompt[d] # NoPrompt =>
            /\ prompt[d].totalLines = NumberOfLines(code)
            /\ NumberOfLines(prompt[d].numberedCode) = NumberOfLines(code)
            /\ \A i \in 1..NumberOfLines(code) :
                   LineOf(prompt[d].numberedCode, i)
                       = <<Numerals[i], ":", " ">> \o LineOf(code, i)

\* a prompt was built for code of three lines, the second empty and the
\* third holding a colon
C26_Witness ==
    /\ code = <<"run", NL, NL, ":">>
    /\ prompt[SQL].totalLines = 3
    /\ prompt[XSS].numberedCode = <<"1", ":", " ", "run", NL, "2", ":", " ", NL, "3", ":", " ", ":">>

\* what identifies a finding of a detector in the response: its line,
\* severity, snippet, explanation and fix
Identity(vuln) ==
    [line |-> vuln.line_number, severity |-> vuln.severity,
     code_snippet |-> vuln.code_snippet, explanation |-> vuln.explanation,
     fix_suggestion |-> vuln.fix_suggestion]

\* the same of a finding of the response
ResponseIdentity(v) ==
    [line |-> v.line, severity |-> v.severity, code_snippet |-> v.code_snippet,
     explanation |-> v.explanation, fix_suggestion |-> v.fix_suggestion]

\* the outputs of the three detectors, one after the other
DetectorOutputs == results[SQL] \o results[XSS] \o results[CRED]

\* C27: the findings of a successful scan response are a permutation of the
\* outputs of the three detectors put together: every finding occurs in the
\* response as often as the detectors reported it, and the total of the
\* summary is the sum of the lengths of the three outputs.
C27_ResponseIsPermutationOfOutputs ==
    outcome.status = "success" =>
        /\ Len(Vulnerabilities) = Len(results[SQL]) + Len(results[XSS]) + Len(results[CRED])
        /\ outcome.summary.total = Len(results[SQL]) + Len(results[XSS]) + Len(results[CRED])
        /\ \A j \in 1..Len(DetectorOutputs) :
              Cardinality({k \in 1..Len(Vulnerabilities) :
                             ResponseIdentity(Vulnerabilities[k]) = Identity(DetectorOutputs[j])})
              = Cardinality({k \in 1..Len(DetectorOutputs) :
                               Identity(DetectorOutputs[k]) = Identity(DetectorOutputs[j])})

\* a successful scan in which two detectors reported the same finding and the
\* response holds both
C27_Witness ==
    /\ outcome.status = "success"
    /\ results[SQL] # <<>>
    /\ results[XSS] = results[SQL]
    /\ Len(results[CRED]) = 2
    /\ outcome.summary.total = 2 * Len(results[SQL]) + 2

\* the values of a finding of a detector
Values(vuln) ==
    [type |-> vuln.vulnerability_type, severity |-> vuln.severity,
     line |-> vuln.line_number, code_snippet |-> vuln.code_snippet,
     explanation |-> vuln.explanation, fix_suggestion |-> vuln.fix_suggestion,
     confidence |-> vuln.confidence]

\* the same values of a finding of the response
ResponseValues(v) ==
    [type |-> v.type, severity |-> v.severity, line |-> v.line,
     code_snippet |-> v.code_snippet, explanation |-> v.explanation,
     fix_suggestion |-> v.fix_suggestion, confidence |-> v.confidence]

\* C28: the formatting step leaves the values of every finding as the
\* detector reported them (type, severity, line, snippet, explanation, fix
\* and confidence, a confidence of 0 included): every finding of a detector
\* is in the successful response with these values, as often as reported.
C28_FormattingKeepsValues ==
    outcome.status = "success" =>
        \A j \in 1..Len(DetectorOutputs) :
            Cardinality({k \in 1..Len(Vulnerabilities) :
                           ResponseValues(Vulnerabilities[k]) = Values(DetectorOutputs[j])})
            = Cardinality({k \in 1..Len(DetectorOutputs) :
                             Values(DetectorOutputs[k]) = Values(DetectorOutputs[j])})

\* C29: a scan request produces one outcome: once the handler has produced
\* an outcome, failure or success, no later step (a detector that was still
\* waiting returns or throws) changes it or produces another.
C29_OutcomeProducedOnce ==
    [][outcome # Pending => outcome' = outcome]_vars

\* the scan failed when the first detector threw, and the two detectors that
\* were still waiting have returned since
C29_Witness ==
    /\ outcome = ServerError
    /\ Len(completed) = 3
    /\ task[completed[1]] = "rejected"
    /\ task[completed[2]] = "fulfilled"
    /\ task[completed[3]] = "fulfilled"
    /\ results[completed[3]] # <<>>

\* C30: when every started model invocation returns or throws, every
\* detector that waits for the model settles, and the scan produces an
\* outcome: past the model's answer no step of a detector (resolution,
\* extraction, normalization) or of the handler waits for anything.
C30_ScanProducesOutcome ==
    /\ <>(outcome # Pending)
    /\ \A d \in DetectorSet :
          (task[d] = "awaiting") ~> (task[d] \in {"fulfilled", "rejected"})

\* every detector's invocation has returned, one of them a truncated array
\* that went through the later stages of the extractor, and the scan has
\* succeeded
C30_Witness ==
    /\ outcome.status = "success"
    /\ \A d \in DetectorSet : received[d].kind = "return" /\ invocations[d] = 1
    /\ received[SQL] = Returned(Str(TextTruncated))
    /\ received[XSS] = Returned(Obj([findings |-> Arr(<<RawLow>>)]))

====
